---------------------------- MODULE Spec2Model ----------------------------
(***************************************************************************)
(* A model of the humanoid robot control system: the Robot state machine   *)
(* (core.py), its SafetyController (safety.py) and ObjectHandler           *)
(* (object_handling.py), the NavigationSystem (navigation.py), RobotMotion  *)
(* (motion.py), the EnvironmentMonitor (environment.py), the               *)
(* CommandProcessor (commands.py) and the command handlers of the CLI      *)
(* session (main.py).                                                      *)
(*                                                                         *)
(* Coordinates.  The source keeps positions as floats in centimetres.  A   *)
(* cardinal step is 10 cm and a diagonal step is 10 / sqrt(2) cm, so every *)
(* coordinate the program computes is a + b * 10/sqrt(2) with a, b         *)
(* integers.  A coordinate is the record [a |-> a, b |-> b]; comparisons   *)
(* are decided exactly in Z[sqrt 2] (floating-point rounding is not        *)
(* modelled).                                                              *)
(***************************************************************************)
EXTENDS Integers, Sequences, FiniteSets, TLC

VARIABLES
    \* core.py, Robot
    current_state,      \* _current_state
    is_operational,     \* _is_operational
    held_object,        \* _held_object (None or an object id)
    subsystems,         \* the subsystem attributes of Robot that are truthy
    \* safety.py, SafetyController
    safety_status,      \* _safety_status
    emergency_stop,     \* _emergency_stop
    \* object_handling.py, ObjectHandler
    gripper_status,     \* _gripper_status
    object_held,        \* _object_held
    current_force,      \* _current_force
    \* navigation.py, NavigationSystem
    position,           \* position, <<x, y>>
    facing_angle,       \* facing_angle
    storage_bay,        \* storage_bay, <<x, y>>
    objects,            \* objects: id -> <<x, y>>
    stored_objects,     \* stored_objects, a list of ids
    \* motion.py, RobotMotion
    walking_speed,      \* _walking_speed
    turning_angle,      \* _turning_angle
    is_moving,          \* _is_moving
    \* environment.py, EnvironmentMonitor
    sensor_readings,    \* _sensor_readings, a list of readings
    \* commands.py, CommandProcessor
    command_queue,      \* _command_queue
    operation_stack,    \* _operation_stack
    last_command,       \* _last_command
    enqueued,           \* history: the commands enqueued since the last clear_queue
    returned,           \* history: the commands process_next_command returned since then
    \* main.py, main
    pc,                 \* where main() is: "start", "loop" or "exit"
    \* observation of the run
    ret,                \* the last call: operation, arguments, result
    triggered           \* history: trigger_emergency_stop() has been called

robot_vars   == <<current_state, is_operational, held_object, subsystems>>
safety_vars  == <<safety_status, emergency_stop>>
handler_vars == <<gripper_status, object_held, current_force>>
nav_vars     == <<position, facing_angle, storage_bay, objects, stored_objects>>
motion_vars  == <<walking_speed, turning_angle, is_moving>>
environment_vars == <<sensor_readings>>
command_vars == <<command_queue, operation_stack, last_command, enqueued, returned>>
vars == <<current_state, is_operational, held_object, subsystems,
          safety_status, emergency_stop,
          gripper_status, object_held, current_force,
          position, facing_angle, storage_bay, objects, stored_objects,
          walking_speed, turning_angle, is_moving,
          sensor_readings,
          command_queue, operation_stack, last_command, enqueued, returned,
          pc, ret, triggered>>

\* Python's None for an object id (the ids are positive)
None == 0

\* Python's None where a command string is expected
NoCommand == "None"

-----------------------------------------------------------------------------
(* Bounds of the model *)

\* largest number of diagonal steps a coordinate may accumulate, either way
MaxDiag == 10

\* step counts offered to walk
StepChoices == {-10, 0, 10}

\* largest number of commands enqueued between two clear_queue calls
MaxEnqueued == 3

\* largest number of operations kept on the operation stack
MaxStack == 3

\* largest number of sensor readings the model lets the monitor collect
MaxReadings == 30

-----------------------------------------------------------------------------
(* Exact arithmetic on coordinates a + b * 10/sqrt(2) = a + 5b * sqrt(2) *)

Abs(n) == IF n < 0 THEN -n ELSE n

RECURSIVE GCD(_, _)
GCD(m, n) == IF n = 0 THEN m ELSE GCD(n, m % n)

\* p + q * sqrt(2) >= 0, for integers p, q of opposite sign
OppositeSigns(p, q) ==
    LET g  == GCD(Abs(p), Abs(q))
        pp == p \div g
        qq == q \div g
    IN  IF pp > 0 THEN pp * pp >= 2 * qq * qq
        ELSE 2 * qq * qq >= pp * pp

\* p + q * sqrt(2) >= 0, for integers p, q
NonNegRoot2(p, q) ==
    IF p >= 0 /\ q >= 0 THEN TRUE
    ELSE IF p <= 0 /\ q <= 0 THEN FALSE
    ELSE OppositeSigns(p, q)

Coord(a) == [a |-> a, b |-> 0]
Point(x, y) == <<Coord(x), Coord(y)>>

CAdd(u, v) == [a |-> u.a + v.a, b |-> u.b + v.b]
CSub(u, v) == [a |-> u.a - v.a, b |-> u.b - v.b]

\* u <= v
CLe(u, v) == NonNegRoot2(v.a - u.a, 5 * (v.b - u.b))

\* the square of a + 5b*sqrt(2), as <<p, q>> meaning p + q*sqrt(2)
CSquare(u) == <<u.a * u.a + 50 * u.b * u.b, 10 * u.a * u.b>>

\* squared Euclidean distance between two points, as <<p, q>>
DistSq(p1, p2) ==
    LET sx == CSquare(CSub(p1[1], p2[1]))
        sy == CSquare(CSub(p1[2], p2[2]))
    IN  <<sx[1] + sy[1], sx[2] + sy[2]>>

\* sqrt(d1) <= sqrt(d2)
DistLe(d1, d2) == NonNegRoot2(d2[1] - d1[1], d2[2] - d1[2])

\* sqrt(d) <= r for an integer r
DistWithin(d, r) == NonNegRoot2(r * r - d[1], -d[2])


-----------------------------------------------------------------------------
(* The record of the last call *)

NoPoint == Point(0, 0)

\* op: the operation; arg, steps, target, flag, id, max_distance, point,
\* number: its arguments; from: the position when walk was called; before:
\* stored_objects when store_object was called; val: the boolean returned;
\* result: the dictionary or list returned; cmd: the command returned
NoRet == [op |-> "none", arg |-> "", steps |-> 0, target |-> NoPoint,
          flag |-> FALSE, id |-> 0, max_distance |-> 0, from |-> NoPoint,
          before |-> <<>>, val |-> FALSE, result |-> <<>>,
          point |-> <<0, 0, 0>>, number |-> 0, cmd |-> NoCommand]

Ret(op, val) == [NoRet EXCEPT !.op = op, !.val = val]

-----------------------------------------------------------------------------
(* navigation.py: NavigationSystem *)

room_width == 1000
room_length == 1000
storage_range == 50
step_size == 10

\* the direction labels offered to walk: the eight compass labels and two
\* labels that hold no direction token
CompassLabels == {"north", "north-east", "east", "south-east",
                  "south", "south-west", "west", "north-west"}
Directions == CompassLabels \cup {"up", ""}

\* the direction tokens that occur in a label as substrings
DirTokens(direction) ==
    CASE direction = "north"      -> {"north"}
      [] direction = "north-east" -> {"north", "east"}
      [] direction = "east"       -> {"east"}
      [] direction = "south-east" -> {"south", "east"}
      [] direction = "south"      -> {"south"}
      [] direction = "south-west" -> {"south", "west"}
      [] direction = "west"       -> {"west"}
      [] direction = "north-west" -> {"north", "west"}
      [] OTHER                    -> {}

\* Python's  token in direction
InLabel(token, direction) == token \in DirTokens(direction)

\* a workspace whose object 3 lies 50 cm from object 1
InitObjectsCrowded == (1 :> Point(300, 300)) @@ (2 :> Point(700, 700)) @@ (3 :> Point(350, 300))

\* NavigationSystem.__init__
InitObjects == (1 :> Point(300, 300)) @@ (2 :> Point(700, 700)) @@ (3 :> Point(300, 700))
InitStorageBay == Point(800, 800)
InitPosition == Point(room_width \div 2, room_length \div 2)

\* walk, lines 150-152: the shorter step is taken only when the label holds
\* "north" together with "east" or "west"
UsesDiagonalStep(direction) ==
    InLabel("north", direction) /\ (InLabel("east", direction) \/ InLabel("west", direction))

\* steps * step_size as a coordinate
StepLength(direction, steps) ==
    IF UsesDiagonalStep(direction)
    THEN [a |-> 0, b |-> steps]
    ELSE [a |-> steps * step_size, b |-> 0]

CNeg(u) == [a |-> -u.a, b |-> -u.b]

\* walk, lines 155-163: a later assignment overrides an earlier one
WalkDy(direction, steps) ==
    IF InLabel("south", direction) THEN CNeg(StepLength(direction, steps))
    ELSE IF InLabel("north", direction) THEN StepLength(direction, steps)
    ELSE Coord(0)

WalkDx(direction, steps) ==
    IF InLabel("west", direction) THEN CNeg(StepLength(direction, steps))
    ELSE IF InLabel("east", direction) THEN StepLength(direction, steps)
    ELSE Coord(0)

\* walk, lines 165-166
WalkTarget(pos, direction, steps) ==
    <<CAdd(pos[1], WalkDx(direction, steps)), CAdd(pos[2], WalkDy(direction, steps))>>

is_at_storage_bay(pos) == DistWithin(DistSq(pos, storage_bay), storage_range)

\* a bounds check that forgets the upper limits
InRoomLowerOnly(target) ==
    CLe(Coord(0), target[1]) /\ CLe(Coord(0), target[2])

\* is_movement_safe, lines 124-125
InRoom(target) ==
    /\ CLe(Coord(0), target[1]) /\ CLe(target[1], Coord(room_width))
    /\ CLe(Coord(0), target[2]) /\ CLe(target[2], Coord(room_length))

\* a carrying rule that accepts a target as far from the bay as the robot is
is_movement_safeAcceptsEqual(target, carrying_object) ==
    IF ~InRoom(target) THEN FALSE
    ELSE IF /\ carrying_object
            /\ ~is_at_storage_bay(position)
            /\ ~DistLe(DistSq(storage_bay, target), DistSq(storage_bay, position))
         THEN FALSE
    ELSE TRUE

is_movement_safe(target, carrying_object) ==
    IF ~InRoom(target) THEN FALSE
    ELSE IF /\ carrying_object
            /\ ~is_at_storage_bay(position)
            /\ DistLe(DistSq(storage_bay, position), DistSq(storage_bay, target))
         THEN FALSE
    ELSE TRUE

\* a query that forgets to leave out the stored objects
get_available_objectsIgnoresStored == DOMAIN objects

get_available_objects == {id \in DOMAIN objects : \A i \in 1..Len(stored_objects) : stored_objects[i] # id}

get_nearby_objects(max_distance) ==
    {id \in get_available_objects : DistWithin(DistSq(objects[id], position), max_distance)}

\* store_object: the list afterwards and the value returned
InStored(object_id) == \E i \in 1..Len(stored_objects) : stored_objects[i] = object_id

\* a store that appends without looking for the id in the list
StoreListAlwaysAppends(object_id) == Append(stored_objects, object_id)

\* a store that replaces the list by the new id
StoreListOverwrites(object_id) == <<object_id>>

StoreList(object_id) ==
    IF ~InStored(object_id) THEN Append(stored_objects, object_id) ELSE stored_objects

StoreValue(object_id) ==
    IF ~InStored(object_id)
    THEN Len(StoreList(object_id)) = Cardinality(DOMAIN objects)
    ELSE FALSE

\* the object ids offered to store_object: the three of the workspace and
\* one that is no key of objects
StoreIds == {1, 2, 3, 5}

StoreObject(object_id) ==
    /\ stored_objects' = StoreList(object_id)
    /\ ret' = [Ret("store_object", StoreValue(object_id))
                 EXCEPT !.id = object_id, !.before = stored_objects]
    /\ UNCHANGED <<position, facing_angle, storage_bay, objects>>
    /\ UNCHANGED <<robot_vars, safety_vars, handler_vars, pc, triggered>>
    /\ UNCHANGED <<motion_vars, environment_vars, command_vars>>

\* the dictionary get_available_objects returns: id -> position
AvailableDict == [id \in get_available_objects |-> objects[id]]

\* the dictionary get_nearby_objects returns: id -> distance, the distance
\* kept as its square <<p, q>> = p + q * sqrt(2)
NearbyDict(max_distance) ==
    [id \in get_nearby_objects(max_distance) |-> DistSq(objects[id], position)]

\* the max_distance arguments offered: the gripping range (main.py line 78),
\* the detection range (line 63) and the default
MaxDistances == {100, 150, 200}

GetAvailableObjects ==
    /\ ret' = [Ret("get_available_objects", FALSE) EXCEPT !.result = AvailableDict]
    /\ UNCHANGED <<nav_vars, robot_vars, safety_vars, handler_vars, pc, triggered>>
    /\ UNCHANGED <<motion_vars, environment_vars, command_vars>>

GetNearbyObjects(max_distance) ==
    /\ ret' = [Ret("get_nearby_objects", FALSE)
                 EXCEPT !.max_distance = max_distance,
                        !.result = NearbyDict(max_distance)]
    /\ UNCHANGED <<nav_vars, robot_vars, safety_vars, handler_vars, pc, triggered>>
    /\ UNCHANGED <<motion_vars, environment_vars, command_vars>>

\* the model keeps the number of accumulated diagonal steps within MaxDiag
WithinDiag(target) ==
    Abs(target[1].b) <= MaxDiag /\ Abs(target[2].b) <= MaxDiag

\* walk calls is_movement_safe with the default carrying_object = False
\* (line 168)
\* a walk that overwrites the position before it asks is_movement_safe
WalkCommitsFirst(direction, steps) ==
    LET target == WalkTarget(position, direction, steps)
        safe   == is_movement_safe(target, FALSE)
    IN  /\ WithinDiag(target)
        /\ position' = target
        /\ ret' = [Ret("walk", safe)
                     EXCEPT !.arg = direction, !.steps = steps, !.target = target,
                            !.from = position]
        /\ UNCHANGED <<facing_angle, storage_bay, objects, stored_objects>>
        /\ UNCHANGED <<robot_vars, safety_vars, handler_vars, pc, triggered>>
        /\ UNCHANGED <<motion_vars, environment_vars, command_vars>>

Walk(direction, steps) ==
    LET target == WalkTarget(position, direction, steps)
        safe   == is_movement_safe(target, FALSE)
    IN  /\ WithinDiag(target)
        /\ position' = (IF safe THEN target ELSE position)
        /\ ret' = [Ret("walk", safe)
                     EXCEPT !.arg = direction, !.steps = steps, !.target = target,
                            !.from = position]
        /\ UNCHANGED <<facing_angle, storage_bay, objects, stored_objects>>
        /\ UNCHANGED <<robot_vars, safety_vars, handler_vars, pc, triggered>>
        /\ UNCHANGED <<motion_vars, environment_vars, command_vars>>

\* the target points offered to a direct is_movement_safe call
ProbePoints == {Point(0, 0), Point(200, 200), Point(500, 500), Point(1000, 1000),
                Point(900, 900), Point(0, 500)}

IsMovementSafe(target, carrying_object) ==
    /\ ret' = [Ret("is_movement_safe", is_movement_safe(target, carrying_object))
                 EXCEPT !.target = target, !.flag = carrying_object]
    /\ UNCHANGED <<nav_vars, robot_vars, safety_vars, handler_vars, pc, triggered>>
    /\ UNCHANGED <<motion_vars, environment_vars, command_vars>>

-----------------------------------------------------------------------------
(* safety.py: SafetyController *)

validate_safety == safety_status /\ ~emergency_stop

SafetyInitialise ==
    /\ safety_status' = TRUE
    /\ ret' = Ret("safety_initialise", TRUE)
    /\ UNCHANGED <<emergency_stop, robot_vars, handler_vars, nav_vars, pc, triggered>>
    /\ UNCHANGED <<motion_vars, environment_vars, command_vars>>

\* a trigger that lowers safety_status but does not set the latch
TriggerEmergencyStopNoLatch ==
    /\ safety_status' = FALSE
    /\ triggered' = TRUE
    /\ ret' = Ret("trigger_emergency_stop", FALSE)
    /\ UNCHANGED <<emergency_stop, robot_vars, handler_vars, nav_vars, pc>>
    /\ UNCHANGED <<motion_vars, environment_vars, command_vars>>

TriggerEmergencyStop ==
    /\ emergency_stop' = TRUE
    /\ safety_status' = FALSE
    /\ triggered' = TRUE
    /\ ret' = Ret("trigger_emergency_stop", FALSE)
    /\ UNCHANGED <<robot_vars, handler_vars, nav_vars, pc>>
    /\ UNCHANGED <<motion_vars, environment_vars, command_vars>>

ValidateSafety ==
    /\ ret' = Ret("validate_safety", validate_safety)
    /\ UNCHANGED <<robot_vars, safety_vars, handler_vars, nav_vars, pc, triggered>>
    /\ UNCHANGED <<motion_vars, environment_vars, command_vars>>

\* check_barriers, lines 54-55
safe_min == 100
safe_max == 900

\* a barrier check that looks at x and y only
check_barriersIgnoresZ(point) ==
    /\ safe_min <= point[1] /\ point[1] <= safe_max
    /\ safe_min <= point[2] /\ point[2] <= safe_max

\* check_barriers, lines 57-59, on a point <<x, y, z>>
check_barriers(point) ==
    /\ safe_min <= point[1] /\ point[1] <= safe_max
    /\ safe_min <= point[2] /\ point[2] <= safe_max
    /\ safe_min <= point[3] /\ point[3] <= safe_max

\* the coordinates offered to check_barriers
BarrierCoords == {99, 100, 101, 500, 900, 901}

CheckBarriers(point) ==
    /\ ret' = [Ret("check_barriers", check_barriers(point)) EXCEPT !.point = point]
    /\ UNCHANGED <<robot_vars, safety_vars, handler_vars, nav_vars, pc, triggered>>
    /\ UNCHANGED <<motion_vars, environment_vars, command_vars>>

-----------------------------------------------------------------------------
(* object_handling.py: ObjectHandler *)

max_grip_force == 100

check_grip_safety == current_force < max_grip_force

\* a grip that does not look at the gripper
GripValueIgnoresGripper == check_grip_safety

\* a grip that does not look at the force
GripValueIgnoresForce == ~gripper_status

\* the value returned by grip() and by release()
GripValue == ~gripper_status /\ check_grip_safety
ReleaseValue == gripper_status

\* grip(), lines 24-33
Grip ==
    /\ gripper_status' = (gripper_status \/ GripValue)
    /\ object_held' = (IF GripValue THEN TRUE ELSE object_held)
    /\ ret' = Ret("grip", GripValue)
    /\ UNCHANGED current_force
    /\ UNCHANGED <<robot_vars, safety_vars, nav_vars, pc, triggered>>
    /\ UNCHANGED <<motion_vars, environment_vars, command_vars>>

\* release(), lines 35-45
Release ==
    /\ gripper_status' = FALSE
    /\ object_held' = (IF ReleaseValue THEN FALSE ELSE object_held)
    /\ current_force' = (IF ReleaseValue THEN 0 ELSE current_force)
    /\ ret' = Ret("release", ReleaseValue)
    /\ UNCHANGED <<robot_vars, safety_vars, nav_vars, pc, triggered>>
    /\ UNCHANGED <<motion_vars, environment_vars, command_vars>>

\* the forces offered to adjust_grip, in newtons
Forces == {10 * k : k \in -1..11}

\* adjust_grip(force), lines 64-73
AdjustGrip(force) ==
    LET accepted == 0 <= force /\ force <= max_grip_force
    IN  /\ current_force' = (IF accepted THEN force ELSE current_force)
        /\ ret' = [Ret("adjust_grip", accepted) EXCEPT !.number = force]
        /\ UNCHANGED <<gripper_status, object_held>>
        /\ UNCHANGED <<robot_vars, safety_vars, nav_vars, pc, triggered>>
        /\ UNCHANGED <<motion_vars, environment_vars, command_vars>>

\* monitor_grip_force(), lines 56-62
MonitorGripForce ==
    /\ ret' = [Ret("monitor_grip_force", FALSE) EXCEPT !.number = current_force]
    /\ UNCHANGED <<robot_vars, safety_vars, handler_vars, nav_vars, pc, triggered>>
    /\ UNCHANGED <<motion_vars, environment_vars, command_vars>>

-----------------------------------------------------------------------------
(* core.py: Robot *)

States == {"Idle", "Walking", "Turning", "Grasping", "Error"}

Subsystems == {"_safety", "_environment", "_motion", "_object_handler"}

\* the command tokens offered to validate_command
Tokens == {"walk", "turn", "grasp", "stop", "release", "reset", "jump", ""}

\* valid_commands.get(state, [])
valid_commands(state) ==
    CASE state = "Idle"     -> {"walk", "turn", "grasp"}
      [] state = "Walking"  -> {"stop", "turn"}
      [] state = "Turning"  -> {"stop", "walk"}
      [] state = "Grasping" -> {"release"}
      [] state = "Error"    -> {"reset"}
      [] OTHER              -> {}

\* a validation that does not look at is_operational
validate_commandIgnoresOperational(command) ==
    command \in valid_commands(current_state)

validate_command(command) ==
    IF ~is_operational THEN FALSE
    ELSE command \in valid_commands(current_state)

\* a validation that moves the robot into the state the command leads to
ValidateCommandTransitions(command) ==
    /\ ret' = [Ret("validate_command", validate_command(command)) EXCEPT !.arg = command]
    /\ current_state' = (IF validate_command(command) /\ command = "walk"
                         THEN "Walking" ELSE current_state)
    /\ UNCHANGED <<is_operational, held_object, subsystems>>
    /\ UNCHANGED <<safety_vars, handler_vars, nav_vars, pc, triggered>>
    /\ UNCHANGED <<motion_vars, environment_vars, command_vars>>

ValidateCommand(command) ==
    /\ ret' = [Ret("validate_command", validate_command(command)) EXCEPT !.arg = command]
    /\ UNCHANGED <<robot_vars, safety_vars, handler_vars, nav_vars, pc, triggered>>
    /\ UNCHANGED <<motion_vars, environment_vars, command_vars>>

\* Robot.initialise.  self._safety.initialise() runs first; a missing
\* _safety raises AttributeError, which the except clause handles; another
\* subsystem that is falsy makes the condition false (line 104).
InitialiseOutcome ==
    IF "_safety" \notin subsystems THEN "except"
    ELSE IF Subsystems \subseteq subsystems THEN "ok"
    ELSE "falsy"

InitialiseEffect ==
    /\ safety_status' = (IF InitialiseOutcome = "except" THEN safety_status ELSE TRUE)
    /\ is_operational' = (CASE InitialiseOutcome = "ok"     -> TRUE
                            [] InitialiseOutcome = "except" -> FALSE
                            [] OTHER                        -> is_operational)
    /\ current_state' = (CASE InitialiseOutcome = "ok"     -> "Idle"
                           [] InitialiseOutcome = "except" -> "Error"
                           [] OTHER                        -> current_state)
    /\ UNCHANGED <<held_object, subsystems, emergency_stop>>

RobotInitialise ==
    /\ InitialiseEffect
    /\ ret' = Ret("initialise", InitialiseOutcome = "ok")
    /\ UNCHANGED <<handler_vars, nav_vars, pc, triggered>>
    /\ UNCHANGED <<motion_vars, environment_vars, command_vars>>

\* the object ids offered to grip_object
GripIds == {1, 2, 3, 5}

\* grip_object(object_id), lines 142-145, with ObjectHandler.grip inlined
GripEffect(object_id) ==
    /\ gripper_status' = (gripper_status \/ GripValue)
    /\ object_held' = (IF GripValue THEN TRUE ELSE object_held)
    /\ held_object' = (IF GripValue THEN object_id ELSE held_object)
    /\ UNCHANGED current_force

\* release_object(), lines 152-155, with ObjectHandler.release inlined
ReleaseEffect ==
    /\ gripper_status' = FALSE
    /\ object_held' = (IF ReleaseValue THEN FALSE ELSE object_held)
    /\ current_force' = (IF ReleaseValue THEN 0 ELSE current_force)
    /\ held_object' = (IF ReleaseValue THEN None ELSE held_object)

\* a grip_object that puts the robot into the Grasping state when it succeeds
GripObjectEntersGrasping(object_id) ==
    /\ "_object_handler" \in subsystems
    /\ GripEffect(object_id)
    /\ current_state' = (IF GripValue THEN "Grasping" ELSE current_state)
    /\ ret' = [Ret("grip_object", GripValue) EXCEPT !.id = object_id]
    /\ UNCHANGED <<is_operational, subsystems, safety_vars, nav_vars, pc, triggered>>
    /\ UNCHANGED <<motion_vars, environment_vars, command_vars>>

GripObject(object_id) ==
    /\ "_object_handler" \in subsystems
    /\ GripEffect(object_id)
    /\ ret' = [Ret("grip_object", GripValue) EXCEPT !.id = object_id]
    /\ UNCHANGED <<current_state, is_operational, subsystems,
                   safety_vars, nav_vars, pc, triggered>>
    /\ UNCHANGED <<motion_vars, environment_vars, command_vars>>

ReleaseObject ==
    /\ "_object_handler" \in subsystems
    /\ ReleaseEffect
    /\ ret' = Ret("release_object", ReleaseValue)
    /\ UNCHANGED <<current_state, is_operational, subsystems,
                   safety_vars, nav_vars, pc, triggered>>
    /\ UNCHANGED <<motion_vars, environment_vars, command_vars>>

-----------------------------------------------------------------------------
(* motion.py: RobotMotion; speeds in whole units, 5.0 is 5 *)

\* _check_movement_safe(), lines 67-73
check_movement_safe == ~is_moving

\* move(), lines 24-32
MotionMove ==
    /\ is_moving' = (is_moving \/ check_movement_safe)
    /\ ret' = Ret("motion_move", check_movement_safe)
    /\ UNCHANGED <<walking_speed, turning_angle>>
    /\ UNCHANGED <<robot_vars, safety_vars, handler_vars, nav_vars, pc, triggered>>
    /\ UNCHANGED <<environment_vars, command_vars>>

\* stop(), lines 34-41
MotionStop ==
    /\ walking_speed' = 0
    /\ is_moving' = FALSE
    /\ ret' = Ret("motion_stop", TRUE)
    /\ UNCHANGED turning_angle
    /\ UNCHANGED <<robot_vars, safety_vars, handler_vars, nav_vars, pc, triggered>>
    /\ UNCHANGED <<environment_vars, command_vars>>

\* the direction words and the angles offered to walk and to turn
MotionDirections == {"forward", "backward", "sideways"}
Degrees == {-181, -180, -90, 0, 90, 180, 181}

\* walk(direction), lines 43-53, with move() inlined
MotionWalk(direction) ==
    /\ IF direction \notin {"forward", "backward"}
       THEN /\ ret' = [Ret("motion_walk", FALSE) EXCEPT !.arg = direction]
            /\ UNCHANGED <<walking_speed, is_moving>>
       ELSE /\ walking_speed' = (IF direction = "forward" THEN 5 ELSE -5)
            /\ is_moving' = (is_moving \/ check_movement_safe)
            /\ ret' = [Ret("motion_walk", check_movement_safe) EXCEPT !.arg = direction]
    /\ UNCHANGED turning_angle
    /\ UNCHANGED <<robot_vars, safety_vars, handler_vars, nav_vars, pc, triggered>>
    /\ UNCHANGED <<environment_vars, command_vars>>

\* turn(degrees), lines 55-65, with move() inlined
MotionTurn(degrees) ==
    /\ IF ~(-180 <= degrees /\ degrees <= 180)
       THEN /\ ret' = [Ret("motion_turn", FALSE) EXCEPT !.number = degrees]
            /\ UNCHANGED <<turning_angle, is_moving>>
       ELSE /\ turning_angle' = degrees
            /\ is_moving' = (is_moving \/ check_movement_safe)
            /\ ret' = [Ret("motion_turn", check_movement_safe) EXCEPT !.number = degrees]
    /\ UNCHANGED walking_speed
    /\ UNCHANGED <<robot_vars, safety_vars, handler_vars, nav_vars, pc, triggered>>
    /\ UNCHANGED <<environment_vars, command_vars>>

-----------------------------------------------------------------------------
(* environment.py: EnvironmentMonitor *)

\* the reading scan() builds, lines 31-37; _obstacle_positions is never
\* written, so obstacles_detected is 0
SensorData == [front_distance |-> 100, left_distance |-> 100, right_distance |-> 100,
               obstacles_detected |-> 0, is_path_clear |-> TRUE]

\* scan(), lines 24-40
Scan ==
    /\ Len(sensor_readings) < MaxReadings
    /\ sensor_readings' = Append(sensor_readings, SensorData)
    /\ ret' = Ret("scan", FALSE)
    /\ UNCHANGED <<robot_vars, safety_vars, handler_vars, nav_vars, pc, triggered>>
    /\ UNCHANGED <<motion_vars, command_vars>>

\* update_sensor_data(), lines 70-79: the scan appends the reading, line 75
\* appends it again, and one reading is dropped when there are more than 10
UpdateSensorData ==
    LET appended == Append(Append(sensor_readings, SensorData), SensorData)
    IN  /\ Len(sensor_readings) < MaxReadings
        /\ sensor_readings' = (IF Len(appended) > 10 THEN Tail(appended) ELSE appended)
        /\ ret' = Ret("update_sensor_data", FALSE)
        /\ UNCHANGED <<robot_vars, safety_vars, handler_vars, nav_vars, pc, triggered>>
        /\ UNCHANGED <<motion_vars, command_vars>>

\* detect(), lines 42-54: an empty list
Detect ==
    /\ ret' = Ret("detect", FALSE)
    /\ UNCHANGED <<robot_vars, safety_vars, handler_vars, nav_vars, pc, triggered>>
    /\ UNCHANGED <<motion_vars, environment_vars, command_vars>>

\* measure_distances(), lines 56-68
MeasureDistances ==
    /\ ret' = Ret("measure_distances", FALSE)
    /\ UNCHANGED <<robot_vars, safety_vars, handler_vars, nav_vars, pc, triggered>>
    /\ UNCHANGED <<motion_vars, environment_vars, command_vars>>

-----------------------------------------------------------------------------
(* commands.py: CommandProcessor *)

\* the command strings offered to enqueue_command
Commands == {"walk", "grasp"}

Last(list) == list[Len(list)]
Front(list) == SubSeq(list, 1, Len(list) - 1)

EnqueueCommand(command) ==
    /\ Len(enqueued) < MaxEnqueued
    /\ command_queue' = Append(command_queue, command)
    /\ enqueued' = Append(enqueued, command)
    /\ ret' = [Ret("enqueue_command", TRUE) EXCEPT !.arg = command]
    /\ UNCHANGED <<operation_stack, last_command, returned>>
    /\ UNCHANGED <<robot_vars, safety_vars, handler_vars, nav_vars, pc, triggered>>
    /\ UNCHANGED <<motion_vars, environment_vars>>

\* a process_next_command that takes the newest command of the queue
ProcessNextCommandTakesNewest ==
    /\ command_queue # <<>> => Len(operation_stack) < MaxStack
    /\ IF command_queue # <<>>
       THEN /\ command_queue' = Front(command_queue)
            /\ last_command' = Last(command_queue)
            /\ operation_stack' = Append(operation_stack, Last(command_queue))
            /\ returned' = Append(returned, Last(command_queue))
            /\ ret' = [Ret("process_next_command", FALSE)
                         EXCEPT !.cmd = Last(command_queue)]
       ELSE /\ ret' = Ret("process_next_command", FALSE)
            /\ UNCHANGED <<command_queue, last_command, operation_stack, returned>>
    /\ UNCHANGED enqueued
    /\ UNCHANGED <<robot_vars, safety_vars, handler_vars, nav_vars, pc, triggered>>
    /\ UNCHANGED <<motion_vars, environment_vars>>

ProcessNextCommand ==
    /\ command_queue # <<>> => Len(operation_stack) < MaxStack
    /\ IF command_queue # <<>>
       THEN /\ command_queue' = Tail(command_queue)
            /\ last_command' = Head(command_queue)
            /\ operation_stack' = Append(operation_stack, Head(command_queue))
            /\ returned' = Append(returned, Head(command_queue))
            /\ ret' = [Ret("process_next_command", FALSE)
                         EXCEPT !.cmd = Head(command_queue)]
       ELSE /\ ret' = Ret("process_next_command", FALSE)
            /\ UNCHANGED <<command_queue, last_command, operation_stack, returned>>
    /\ UNCHANGED enqueued
    /\ UNCHANGED <<robot_vars, safety_vars, handler_vars, nav_vars, pc, triggered>>
    /\ UNCHANGED <<motion_vars, environment_vars>>

\* an undo that takes the oldest operation of the stack
UndoLastOperationTakesOldest ==
    /\ IF operation_stack # <<>>
       THEN /\ operation_stack' = Tail(operation_stack)
            /\ ret' = [Ret("undo_last_operation", FALSE)
                         EXCEPT !.cmd = Head(operation_stack)]
       ELSE /\ ret' = Ret("undo_last_operation", FALSE)
            /\ UNCHANGED operation_stack
    /\ UNCHANGED <<command_queue, last_command, enqueued, returned>>
    /\ UNCHANGED <<robot_vars, safety_vars, handler_vars, nav_vars, pc, triggered>>
    /\ UNCHANGED <<motion_vars, environment_vars>>

UndoLastOperation ==
    /\ IF operation_stack # <<>>
       THEN /\ operation_stack' = Front(operation_stack)
            /\ ret' = [Ret("undo_last_operation", FALSE)
                         EXCEPT !.cmd = Last(operation_stack)]
       ELSE /\ ret' = Ret("undo_last_operation", FALSE)
            /\ UNCHANGED operation_stack
    /\ UNCHANGED <<command_queue, last_command, enqueued, returned>>
    /\ UNCHANGED <<robot_vars, safety_vars, handler_vars, nav_vars, pc, triggered>>
    /\ UNCHANGED <<motion_vars, environment_vars>>

GetOperationHistory ==
    /\ ret' = [Ret("get_operation_history", FALSE) EXCEPT !.result = operation_stack]
    /\ UNCHANGED <<robot_vars, safety_vars, handler_vars, nav_vars, pc, triggered>>
    /\ UNCHANGED <<motion_vars, environment_vars, command_vars>>

ClearQueue ==
    /\ command_queue' = <<>>
    /\ enqueued' = <<>>
    /\ returned' = <<>>
    /\ ret' = Ret("clear_queue", FALSE)
    /\ UNCHANGED <<operation_stack, last_command>>
    /\ UNCHANGED <<robot_vars, safety_vars, handler_vars, nav_vars, pc, triggered>>
    /\ UNCHANGED <<motion_vars, environment_vars>>

QueueSize ==
    /\ ret' = [Ret("queue_size", FALSE) EXCEPT !.number = Len(command_queue)]
    /\ UNCHANGED <<robot_vars, safety_vars, handler_vars, nav_vars, pc, triggered>>
    /\ UNCHANGED <<motion_vars, environment_vars, command_vars>>

StackSize ==
    /\ ret' = [Ret("stack_size", FALSE) EXCEPT !.number = Len(operation_stack)]
    /\ UNCHANGED <<robot_vars, safety_vars, handler_vars, nav_vars, pc, triggered>>
    /\ UNCHANGED <<motion_vars, environment_vars, command_vars>>

-----------------------------------------------------------------------------
(* Construction *)

\* AbstractRobot.__init__ and Robot.__init__
InitRobot ==
    /\ current_state = "Idle"
    /\ is_operational = FALSE
    /\ held_object = None
    /\ subsystems = Subsystems

\* SafetyController.__init__
InitSafety ==
    /\ safety_status = FALSE
    /\ emergency_stop = FALSE

\* ObjectHandler.__init__
InitHandler ==
    /\ gripper_status = FALSE
    /\ object_held = FALSE
    /\ current_force = 0

\* NavigationSystem.__init__
InitNav ==
    /\ position = InitPosition
    /\ facing_angle = 0
    /\ storage_bay = InitStorageBay
    /\ objects = InitObjects
    /\ stored_objects = <<>>

\* RobotMotion.__init__
InitMotion ==
    /\ walking_speed = 0
    /\ turning_angle = 0
    /\ is_moving = FALSE

\* EnvironmentMonitor.__init__
InitEnvironment == sensor_readings = <<>>

\* CommandProcessor.__init__
InitCommands ==
    /\ command_queue = <<>>
    /\ operation_stack = <<>>
    /\ last_command = NoCommand
    /\ enqueued = <<>>
    /\ returned = <<>>

InitSubsystems == InitMotion /\ InitEnvironment /\ InitCommands

InitObserved ==
    /\ pc = "start"
    /\ ret = NoRet
    /\ triggered = FALSE

Init ==
    InitRobot /\ InitSafety /\ InitHandler /\ InitNav /\ InitSubsystems /\ InitObserved

-----------------------------------------------------------------------------
(* SpecRobot: a Robot and its subsystems under their public operations *)

NextRobot ==
    \/ RobotInitialise
    \/ SafetyInitialise
    \/ TriggerEmergencyStop
    \/ ValidateSafety
    \/ \E command \in Tokens : ValidateCommand(command)
    \/ \E object_id \in GripIds : GripObject(object_id)
    \/ ReleaseObject

SpecRobot == Init /\ [][NextRobot]_vars

-----------------------------------------------------------------------------
(* SpecSafety: a SafetyController under its operations *)

NextSafety ==
    \/ SafetyInitialise
    \/ TriggerEmergencyStop
    \/ ValidateSafety
    \/ \E x \in BarrierCoords, y \in BarrierCoords, z \in BarrierCoords :
          CheckBarriers(<<x, y, z>>)

SpecSafety == Init /\ [][NextSafety]_vars

-----------------------------------------------------------------------------
(* SpecHandler: an ObjectHandler under its operations *)

NextHandler ==
    \/ Grip
    \/ Release
    \/ \E force \in Forces : AdjustGrip(force)
    \/ MonitorGripForce

SpecHandler == Init /\ [][NextHandler]_vars

-----------------------------------------------------------------------------
(* SpecMotion: a RobotMotion under its operations *)

NextMotion ==
    \/ MotionMove
    \/ MotionStop
    \/ \E direction \in MotionDirections : MotionWalk(direction)
    \/ \E degrees \in Degrees : MotionTurn(degrees)

SpecMotion == Init /\ [][NextMotion]_vars

-----------------------------------------------------------------------------
(* SpecEnvironment: an EnvironmentMonitor under its operations *)

NextEnvironment ==
    \/ Scan
    \/ UpdateSensorData
    \/ Detect
    \/ MeasureDistances

SpecEnvironment == Init /\ [][NextEnvironment]_vars

-----------------------------------------------------------------------------
(* SpecNav: a NavigationSystem under walk and is_movement_safe *)

NextNav ==
    \/ \E direction \in Directions, steps \in StepChoices : Walk(direction, steps)
    \/ \E target \in ProbePoints, carrying_object \in BOOLEAN :
          IsMovementSafe(target, carrying_object)

SpecNav == Init /\ [][NextNav]_vars

-----------------------------------------------------------------------------
(* SpecStore: a NavigationSystem standing at one of several places, under    *)
(* store_object and the two object queries                                  *)

\* places the robot can walk to from the centre
QueryPositions == {Point(500, 500), Point(350, 300), Point(300, 300),
                   Point(700, 700), Point(800, 800), Point(250, 650),
                   Point(300, 400)}

InitStore ==
    /\ InitRobot /\ InitSafety /\ InitHandler /\ InitSubsystems /\ InitObserved
    /\ position \in QueryPositions
    /\ facing_angle = 0
    /\ storage_bay = InitStorageBay
    /\ objects = InitObjects
    /\ stored_objects = <<>>

NextStore ==
    \/ \E object_id \in StoreIds : StoreObject(object_id)
    \/ GetAvailableObjects
    \/ \E max_distance \in MaxDistances : GetNearbyObjects(max_distance)

SpecStore == InitStore /\ [][NextStore]_vars

-----------------------------------------------------------------------------
(* SpecCommands: a CommandProcessor under its operations *)

NextCommands ==
    \/ \E command \in Commands : EnqueueCommand(command)
    \/ ProcessNextCommand
    \/ UndoLastOperation
    \/ GetOperationHistory
    \/ ClearQueue
    \/ QueueSize
    \/ StackSize

SpecCommands == Init /\ [][NextCommands]_vars

-----------------------------------------------------------------------------
(* main.py: the command handlers of the session *)

\* the direction labels and step tokens typed in the session
CliDirections == {"north", "east", "south", "west", "north-east", "south-west", "up"}

Number(n) == [numeric |-> TRUE, value |-> n]
NotANumber == [numeric |-> FALSE, value |-> 0]

\* the lists command.split() gives for the walk commands typed
WalkCommands ==
    {<<"walk", direction, Number(10)>> : direction \in CliDirections}
        \cup {<<"walk", "north">>, <<"walk", "north", NotANumber>>}

Min(S) == CHOOSE n \in S : \A m \in S : n <= m

\* main, lines 148-157
SessionStart ==
    /\ pc = "start"
    /\ InitialiseEffect
    /\ pc' = (IF InitialiseOutcome = "ok" THEN "loop" ELSE "exit")
    /\ ret' = Ret("initialise", InitialiseOutcome = "ok")
    /\ UNCHANGED <<handler_vars, nav_vars, triggered>>
    /\ UNCHANGED <<motion_vars, environment_vars, command_vars>>

\* handle_movement; ret.arg is the message printed
HandleMovement(parts) ==
    /\ pc = "loop"
    /\ IF Len(parts) # 3
       THEN /\ ret' = [Ret("handle_movement", FALSE) EXCEPT !.arg = "invalid_command"]
            /\ UNCHANGED position
       ELSE IF ~parts[3].numeric
       THEN /\ ret' = [Ret("handle_movement", FALSE) EXCEPT !.arg = "invalid_steps"]
            /\ UNCHANGED position
       ELSE LET target == WalkTarget(position, parts[2], parts[3].value)
                safe   == is_movement_safe(target, FALSE)
            IN  /\ WithinDiag(target)
                /\ position' = (IF safe THEN target ELSE position)
                /\ ret' = [Ret("handle_movement", safe)
                             EXCEPT !.arg = IF safe THEN "moved"
                                            ELSE IF held_object # None
                                                 THEN "carrying_refused"
                                                 ELSE "blocked"]
    /\ UNCHANGED <<facing_angle, storage_bay, objects, stored_objects>>
    /\ UNCHANGED <<robot_vars, safety_vars, handler_vars, pc, triggered>>
    /\ UNCHANGED <<motion_vars, environment_vars, command_vars>>

\* a grasp that also looks among the stored objects
HandleGraspIgnoresStored ==
    LET grippable == {id \in DOMAIN objects :
                         DistWithin(DistSq(objects[id], position), 100)}
    IN  /\ pc = "loop"
        /\ IF grippable # {}
           THEN /\ GripEffect(Min(grippable))
                /\ ret' = [Ret("grasp", GripValue)
                             EXCEPT !.id = Min(grippable),
                                    !.arg = IF GripValue THEN "gripped" ELSE "failed"]
           ELSE /\ ret' = [Ret("grasp", FALSE) EXCEPT !.arg = "none_in_reach"]
                /\ UNCHANGED <<held_object, handler_vars>>
        /\ UNCHANGED <<current_state, is_operational, subsystems,
                       safety_vars, nav_vars, pc, triggered>>
        /\ UNCHANGED <<motion_vars, environment_vars, command_vars>>

\* handle_object_interaction("grasp"), lines 76-89
HandleGrasp ==
    LET grippable == get_nearby_objects(100)
    IN  /\ pc = "loop"
        /\ IF grippable # {}
           THEN /\ GripEffect(Min(grippable))
                /\ ret' = [Ret("grasp", GripValue)
                             EXCEPT !.id = Min(grippable),
                                    !.arg = IF GripValue THEN "gripped" ELSE "failed"]
           ELSE /\ ret' = [Ret("grasp", FALSE) EXCEPT !.arg = "none_in_reach"]
                /\ UNCHANGED <<held_object, handler_vars>>
        /\ UNCHANGED <<current_state, is_operational, subsystems,
                       safety_vars, nav_vars, pc, triggered>>
        /\ UNCHANGED <<motion_vars, environment_vars, command_vars>>

\* a release that credits the held object wherever the robot stands
HandleReleaseCreditsAnywhere ==
    /\ pc = "loop"
    /\ IF held_object = None
       THEN /\ ret' = [Ret("release", FALSE) EXCEPT !.arg = "nothing_held"]
            /\ UNCHANGED <<held_object, handler_vars, stored_objects>>
       ELSE /\ ReleaseEffect
            /\ stored_objects' = StoreList(held_object)
            /\ ret' = [Ret("release", StoreValue(held_object))
                         EXCEPT !.id = held_object, !.arg = "stored"]
    /\ UNCHANGED <<current_state, is_operational, subsystems, safety_vars,
                   position, facing_angle, storage_bay, objects, pc, triggered>>
    /\ UNCHANGED <<motion_vars, environment_vars, command_vars>>

\* handle_object_interaction("release"), lines 91-112
HandleRelease ==
    /\ pc = "loop"
    /\ IF held_object = None
       THEN /\ ret' = [Ret("release", FALSE) EXCEPT !.arg = "nothing_held"]
            /\ UNCHANGED <<held_object, handler_vars, stored_objects>>
       ELSE IF is_at_storage_bay(position)
       THEN /\ ReleaseEffect
            /\ stored_objects' = StoreList(held_object)
            /\ ret' = [Ret("release", StoreValue(held_object))
                         EXCEPT !.id = held_object, !.arg = "stored"]
       ELSE /\ ReleaseEffect
            /\ UNCHANGED stored_objects
            /\ ret' = [Ret("release", FALSE)
                         EXCEPT !.id = held_object, !.arg = "released_outside"]
    /\ UNCHANGED <<current_state, is_operational, subsystems, safety_vars,
                   position, facing_angle, storage_bay, objects, pc, triggered>>
    /\ UNCHANGED <<motion_vars, environment_vars, command_vars>>

-----------------------------------------------------------------------------
(* Spec: the session of main(), with the emergency stop as an outside event *)

Next ==
    \/ SessionStart
    \/ \E parts \in WalkCommands : HandleMovement(parts)
    \/ HandleGrasp
    \/ HandleRelease
    \/ TriggerEmergencyStop

Spec == Init /\ [][Next]_vars

-----------------------------------------------------------------------------
(* SpecGrasp: the grasp and release commands of a session whose robot has    *)
(* walked to any place of a 50 cm grid, after any one delivery              *)

GraspPositions == {Point(50 * i, 50 * j) : i \in 0..20, j \in 0..20}
DeliveredLists == {<<>>, <<1>>, <<2>>, <<3>>}

InitGrasp ==
    /\ current_state = "Idle"
    /\ is_operational = TRUE
    /\ held_object = None
    /\ subsystems = Subsystems
    /\ safety_status = TRUE
    /\ emergency_stop = FALSE
    /\ InitHandler
    /\ position \in GraspPositions
    /\ facing_angle = 0
    /\ storage_bay = InitStorageBay
    /\ objects = InitObjects
    /\ stored_objects \in DeliveredLists
    /\ InitSubsystems
    /\ pc = "loop"
    /\ ret = NoRet
    /\ triggered = FALSE

NextGrasp ==
    \/ HandleGrasp
    \/ HandleRelease

SpecGrasp == InitGrasp /\ [][NextGrasp]_vars

-----------------------------------------------------------------------------
(* SpecValidate: validate_command on every robot state *)

InitValidate ==
    /\ current_state \in States \cup {"Shutdown"}
    /\ is_operational \in BOOLEAN
    /\ held_object \in {None, 1, 2, 3}
    /\ subsystems = Subsystems
    /\ InitSafety
    /\ gripper_status = (held_object # None)
    /\ object_held = (held_object # None)
    /\ current_force = 0
    /\ InitNav
    /\ InitSubsystems
    /\ InitObserved

NextValidate == \E command \in Tokens : ValidateCommand(command)

SpecValidate == InitValidate /\ [][NextValidate]_vars

-----------------------------------------------------------------------------
(* SpecFault: Robot.initialise on a robot some of whose subsystems are     *)
(* missing                                                                 *)

InitFault ==
    /\ current_state = "Idle"
    /\ is_operational = FALSE
    /\ held_object = None
    /\ subsystems \in SUBSET Subsystems
    /\ InitSafety /\ InitHandler /\ InitNav /\ InitSubsystems /\ InitObserved

NextFault ==
    \/ RobotInitialise
    \/ \E command \in Tokens : ValidateCommand(command)

SpecFault == InitFault /\ [][NextFault]_vars

-----------------------------------------------------------------------------
(* The claims *)

\* C1 (SpecRobot).  Emergency-stop latch: once trigger_emergency_stop() has
\* been called, validate_safety() is false in every later state, whatever
\* operations follow, further initialise() calls included.
C1_EmergencyStopLatch ==
    triggered =>
        /\ ~validate_safety
        /\ ret.op = "validate_safety" => ret.val = FALSE

\* validate_safety() called after the stop and after a later initialise()
\* has raised safety_status again
C1_Witness ==
    triggered /\ safety_status /\ is_operational /\ ret.op = "validate_safety"

\* the table of section 4.3
C2_LegalTokens(state) ==
    IF state = "Idle" THEN {"walk", "turn", "grasp"}
    ELSE IF state = "Walking" THEN {"stop", "turn"}
    ELSE IF state = "Turning" THEN {"stop", "walk"}
    ELSE IF state = "Grasping" THEN {"release"}
    ELSE IF state = "Error" THEN {"reset"}
    ELSE {}

\* C2 (SpecValidate).  validate_command(token) returns true exactly when
\* is_operational is true and the token is in the row of the current state;
\* for every other token, an unknown state or a robot that is not
\* operational it returns false.
C2_ValidateCommandTable ==
    ret.op = "validate_command" =>
        (ret.val <=> (is_operational /\ ret.arg \in C2_LegalTokens(current_state)))

C2_Witness ==
    /\ ret.op = "validate_command" /\ ret.val
    /\ current_state = "Walking" /\ ret.arg = "stop"

\* C3 (SpecValidate).  validate_command never changes the robot: the state,
\* the operational flag and the held object are the same after the call as
\* before, whether it returns true or false.
C3_ValidateCommandIsPure ==
    [][ret'.op = "validate_command" =>
          /\ current_state' = current_state
          /\ is_operational' = is_operational
          /\ held_object' = held_object]_vars

\* a successful validation of walk that left the robot Idle
C3_Witness ==
    /\ ret.op = "validate_command" /\ ret.val /\ ret.arg = "walk"
    /\ current_state = "Idle" /\ is_operational /\ held_object = 2

C5_CardinalStep(direction) ==
    IF direction = "north" THEN <<0, 10>>
    ELSE IF direction = "south" THEN <<0, -10>>
    ELSE IF direction = "east" THEN <<10, 0>>
    ELSE <<-10, 0>>

\* C5 (SpecNav).  walk(direction, steps): when it returns false the position
\* is what it was before the call; when it returns true the position is the
\* computed target, the old position plus the deltas of the direction tokens
\* times steps, so walk("north", 10) from (500,500) gives (500,600) and
\* returns true.  Nothing else of the navigation state changes.
C5_WalkEffect ==
    /\ ret.op = "walk" =>
          /\ ret.target = WalkTarget(ret.from, ret.arg, ret.steps)
          /\ position = (IF ret.val THEN ret.target ELSE ret.from)
          /\ ret.arg \in {"north", "south", "east", "west"} =>
                ret.target =
                    <<CAdd(ret.from[1], Coord(ret.steps * C5_CardinalStep(ret.arg)[1])),
                      CAdd(ret.from[2], Coord(ret.steps * C5_CardinalStep(ret.arg)[2]))>>
          /\ (ret.from = Point(500, 500) /\ ret.arg = "north" /\ ret.steps = 10) =>
                (ret.val /\ position = Point(500, 600))
    /\ objects = InitObjects
    /\ stored_objects = <<>>
    /\ storage_bay = InitStorageBay
    /\ facing_angle = 0

\* the scenario: walk("north", 10) from the centre
C5_Witness ==
    /\ ret.op = "walk" /\ ret.from = Point(500, 500)
    /\ ret.arg = "north" /\ ret.steps = 10
    /\ ret.val /\ position = Point(500, 600)

\* C6 (SpecNav).  Position invariant: after any sequence of walk calls, with
\* any direction label and any step count, 0 <= x <= room_width and
\* 0 <= y <= room_length.
C6_PositionInRoom ==
    /\ CLe(Coord(0), position[1]) /\ CLe(position[1], Coord(1000))
    /\ CLe(Coord(0), position[2]) /\ CLe(position[2], Coord(1000))

\* a walk off the north wall, refused with the robot on the wall
C6_Witness ==
    /\ ret.op = "walk" /\ ~ret.val
    /\ position[2] = Coord(1000)
    /\ ~CLe(ret.target[2], Coord(1000))

\* the target of the last walk is farther from the storage bay than the
\* position the walk started from
C7_TargetFarther ==
    ~DistLe(DistSq(storage_bay, ret.target), DistSq(storage_bay, ret.from))

\* C7 (SpecNav).  While an object is unstored, a walk whose target is
\* farther from the storage bay than the current position returns false and
\* leaves the position unchanged.
C7_MonotonicApproach ==
    (ret.op = "walk" /\ get_available_objects # {} /\ C7_TargetFarther) =>
        (~ret.val /\ position = ret.from)

\* C8 (SpecNav).  is_movement_safe returns false for the corners (0,0) and
\* (1000,1000) of the room and true for (500,500) and (200,200).
C8_BoundaryTargets ==
    (ret.op = "is_movement_safe" /\ ~ret.flag) =>
        /\ ret.target \in {Point(0, 0), Point(1000, 1000)} => ~ret.val
        /\ ret.target \in {Point(500, 500), Point(200, 200)} => ret.val

\* C9 (SpecNav).  A walk moves the robot only to a target the safety
\* barrier accepts: the position stays inside the safe envelope, 100..900 on
\* each axis.
C9_SafeEnvelope ==
    /\ CLe(Coord(safe_min), position[1]) /\ CLe(position[1], Coord(safe_max))
    /\ CLe(Coord(safe_min), position[2]) /\ CLe(position[2], Coord(safe_max))

\* C10 (Spec).  Fail-closed emergency stop: after trigger_emergency_stop()
\* no later walk command moves the robot.
C10_FailClosed ==
    (triggered /\ ret.op = "handle_movement") => (~ret.val /\ ret.arg # "moved")

\* the ids of a list of stored objects
Ids(list) == {list[i] : i \in 1..Len(list)}

\* C11: a store_object(id) called when id is already in stored_objects (an
\* earlier store_object(id) put it there, whatever other ids were stored in
\* between) returns false and leaves stored_objects as it was, in contents
\* and in length
C11_StoreIdempotent ==
    (ret.op = "store_object" /\ ret.id \in Ids(ret.before))
        => (~ret.val /\ stored_objects = ret.before)

\* a second store of the id stored first, after another id was stored
C11_Witness ==
    /\ ret.op = "store_object"
    /\ Len(ret.before) >= 2
    /\ ret.before[1] = ret.id
    /\ stored_objects = ret.before

\* C12: store_object returns true exactly when the call made every object of
\* the workspace stored: a true result implies that all of objects are in
\* stored_objects, and the call that stores the last unstored object returns
\* true, whatever ids the calls were given
C12_TrueIffAllStored ==
    ret.op = "store_object"
        => /\ ret.val => (DOMAIN objects \subseteq Ids(stored_objects))
           /\ ( /\ DOMAIN objects \subseteq Ids(stored_objects)
                /\ ~(DOMAIN objects \subseteq Ids(ret.before)) ) => ret.val

\* C13: store_object with an id that is no key of objects returns false and
\* leaves stored_objects unchanged, so that stored_objects only ever holds
\* object ids and is never longer than the object map
C13_UnknownIdRejected ==
    /\ (ret.op = "store_object" /\ ret.id \notin DOMAIN objects)
           => (~ret.val /\ stored_objects = ret.before)
    /\ Ids(stored_objects) \subseteq DOMAIN objects
    /\ Len(stored_objects) <= Cardinality(DOMAIN objects)

\* C14: an id that is in stored_objects is in it in every later state, under
\* every walk, grasp and release (with its store) of the session, and the
\* objects map is never changed after construction
C14_StoredIsPermanent ==
    [][ /\ Ids(stored_objects) \subseteq Ids(stored_objects')
        /\ objects' = objects ]_vars

\* two objects were delivered one after the other and a third one is held
C14_Witness ==
    /\ Len(stored_objects) = 2
    /\ held_object \in DOMAIN objects \ Ids(stored_objects)
    /\ objects = InitObjects

\* C15: the robot holds at most one object: a grip_object called while an
\* object is held returns false and leaves the held object as it is; the
\* held object changes from None to an id only in a grip_object that returns
\* true (and to the id it was given), and from an id to None only in a
\* release_object that returns true
C15_SingleHeldObject ==
    [][ /\ (ret'.op = "grip_object" /\ held_object # None)
               => (~ret'.val /\ held_object' = held_object)
        /\ (held_object' # held_object)
               => \/ /\ held_object = None
                     /\ ret'.op = "grip_object" /\ ret'.val
                     /\ held_object' = ret'.id
                  \/ /\ held_object # None /\ held_object' = None
                     /\ ret'.op = "release_object" /\ ret'.val ]_vars

\* a grip_object for another id was refused while an object is held
C15_Witness ==
    /\ held_object # None
    /\ ret.op = "grip_object"
    /\ ret.id # held_object
    /\ ~ret.val

\* C16: a grip_object called when get_nearby_objects(100) is empty returns
\* false and the held object stays None, so that the robot only ever holds
\* an unstored object of the workspace that is within 100 cm (here the
\* robot stands at the centre throughout, 283 cm from the nearest object)
C16_GripNeedsObjectInRange ==
    /\ (ret.op = "grip_object" /\ get_nearby_objects(100) = {})
           => (~ret.val /\ held_object = None)
    /\ (held_object # None) => (held_object \in get_nearby_objects(100))

\* C17: in the session an id is added to stored_objects only by a release
\* performed while the robot is at the storage bay, and it is the id of the
\* object held at that moment; a release away from the bay clears the held
\* object and leaves stored_objects unchanged
C17_CreditOnlyAtBay ==
    [][ /\ (stored_objects' # stored_objects)
               => /\ ret'.op = "release"
                  /\ is_at_storage_bay(position)
                  /\ held_object # None
                  /\ stored_objects' = Append(stored_objects, held_object)
        /\ (ret'.op = "release" /\ held_object # None /\ ~is_at_storage_bay(position))
               => (held_object' = None /\ stored_objects' = stored_objects) ]_vars

\* after one delivery at the bay, another object was released away from it
C17_Witness ==
    /\ Len(stored_objects) = 1
    /\ ret.op = "release"
    /\ ret.arg = "released_outside"
    /\ ~is_at_storage_bay(position)
    /\ held_object = None

\* C18: the queries range over the unstored objects only:
\* get_available_objects() is exactly the objects whose id is not in
\* stored_objects, and get_nearby_objects(d) is exactly the available objects
\* at Euclidean distance <= d from the position, each with its distance (kept
\* as its square); with the robot at (350, 300) and object 1 at (300, 300)
\* unstored, get_nearby_objects(100) is {1: 50.0}; a stored object never appears
C18_QueriesOverUnstored ==
    LET unstored == {id \in DOMAIN objects : id \notin Ids(stored_objects)}
        square(id) == (objects[id][1].a - position[1].a) * (objects[id][1].a - position[1].a)
                    + (objects[id][2].a - position[2].a) * (objects[id][2].a - position[2].a)
        near(d) == {id \in unstored : square(id) <= d * d}
    IN  /\ ret.op = "get_available_objects"
            => ret.result = [id \in unstored |-> objects[id]]
        /\ ret.op = "get_nearby_objects"
            => ret.result = [id \in near(ret.max_distance) |-> <<square(id), 0>>]
        /\ ret.op \in {"get_available_objects", "get_nearby_objects"}
            => DOMAIN ret.result \cap Ids(stored_objects) = {}
        /\ ( /\ ret.op = "get_nearby_objects" /\ ret.max_distance = 100
             /\ position = Point(350, 300) /\ 1 \notin Ids(stored_objects) )
            => ret.result = (1 :> <<50 * 50, 0>>)

\* the robot at (350, 300) asks for the objects within 100 cm after another
\* object was stored, and is given object 1 at 50 cm
C18_Witness ==
    /\ position = Point(350, 300)
    /\ stored_objects = <<3>>
    /\ ret.op = "get_nearby_objects"
    /\ ret.max_distance = 100
    /\ ret.result = (1 :> <<2500, 0>>)

\* C19: a walk whose label holds no direction token ("up", "") returns false
\* and leaves the position unchanged
C19_MalformedDirectionFalse ==
    (ret.op = "walk" /\ ret.arg \notin CompassLabels)
        => (~ret.val /\ position = ret.from)

\* C20: a successful walk of n steps under any of the four diagonal labels
\* displaces the robot by n * 10/sqrt(2) on each axis, and under a cardinal
\* label by n * 10 on one axis and nothing on the other
C20_DiagonalStepLength ==
    LET dx == CSub(position[1], ret.from[1])
        dy == CSub(position[2], ret.from[2])
        diagonal(d) == d.a = 0 /\ Abs(d.b) = Abs(ret.steps)
        straight(d) == d.b = 0 /\ Abs(d.a) = step_size * Abs(ret.steps)
    IN  (ret.op = "walk" /\ ret.val)
            => /\ ret.arg \in {"north-east", "north-west", "south-east", "south-west"}
                      => (diagonal(dx) /\ diagonal(dy))
               /\ ret.arg \in {"north", "south"} => (dx = Coord(0) /\ straight(dy))
               /\ ret.arg \in {"east", "west"} => (straight(dx) /\ dy = Coord(0))

\* C21: check_barriers returns false for every point with one of its three
\* coordinates below 100 or above 900, returns true for every point with all
\* three strictly between them, and leaves safety_status and emergency_stop
\* as they were
C21_CheckBarriers ==
    [][ ret'.op = "check_barriers"
            => /\ (\E i \in 1..3 : ret'.point[i] < 100 \/ ret'.point[i] > 900)
                      => ~ret'.val
               /\ (\A i \in 1..3 : 100 < ret'.point[i] /\ ret'.point[i] < 900)
                      => ret'.val
               /\ safety_status' = safety_status
               /\ emergency_stop' = emergency_stop ]_vars

\* with the safety system initialised, a point whose z alone is above the
\* envelope was refused
C21_Witness ==
    /\ ret.op = "check_barriers"
    /\ ret.point = <<500, 101, 901>>
    /\ ~ret.val
    /\ safety_status

\* C22: the command queue is first in, first out: enqueue_command returns
\* true and makes the queue one longer; a process_next_command on a queue
\* that is not empty makes it one shorter and returns the oldest command
\* enqueued and not yet returned, so that the commands returned followed by
\* the commands still queued are the commands enqueued, in their order, each
\* once, under every interleaving of the calls
C22_QueueIsFifo ==
    [][ /\ ret'.op = "enqueue_command"
            => (ret'.val /\ Len(command_queue') = Len(command_queue) + 1)
        /\ (ret'.op = "process_next_command" /\ command_queue # <<>>)
            => /\ Len(command_queue') = Len(command_queue) - 1
               /\ ret'.cmd = enqueued[Len(returned) + 1]
        /\ returned' \o command_queue' = enqueued' ]_vars

\* enqueue, process, enqueue, enqueue, process: the second command came out
\* second and the third is still queued
C22_Witness ==
    /\ enqueued = <<"walk", "grasp", "walk">>
    /\ returned = <<"walk", "grasp">>
    /\ command_queue = <<"walk">>
    /\ ret.op = "process_next_command"
    /\ ret.cmd = "grasp"

\* C23: grip() succeeds exactly when the gripper is open and the force is
\* below 100, and then closes the gripper; release() succeeds exactly when
\* the gripper is closed, and then opens it; a call that fails leaves the
\* gripper as it is and nothing else moves the gripper, so that successful
\* grips and releases alternate, the first being a grip; and _object_held
\* always equals _gripper_status
C23_GripperAlternation ==
    [][ /\ ret'.op = "grip"
            => /\ ret'.val <=> (~gripper_status /\ current_force < 100)
               /\ gripper_status' = (IF ret'.val THEN TRUE ELSE gripper_status)
        /\ ret'.op = "release"
            => /\ ret'.val <=> gripper_status
               /\ gripper_status' = (IF ret'.val THEN FALSE ELSE gripper_status)
        /\ (gripper_status' # gripper_status)
            => (ret'.op \in {"grip", "release"} /\ ret'.val)
        /\ object_held' = gripper_status' ]_vars

\* a grip on an open gripper was refused because the force is at the maximum
C23_Witness ==
    /\ ret.op = "grip"
    /\ ~ret.val
    /\ ~gripper_status
    /\ current_force = 100

\* C24: walk("forward" or "backward") and turn(d) with -180 <= d <= 180
\* return true, and set is_moving, exactly when the robot was not moving;
\* stop() returns true and leaves is_moving false; and a walk or turn that
\* returns false (bad argument or already moving) leaves walking_speed,
\* turning_angle and is_moving as they were
C24_MotionStartStop ==
    [][ /\ (ret'.op = "motion_walk" /\ ret'.arg \in {"forward", "backward"})
            => ((ret'.val <=> ~is_moving) /\ (ret'.val => is_moving'))
        /\ (ret'.op = "motion_turn" /\ -180 <= ret'.number /\ ret'.number <= 180)
            => ((ret'.val <=> ~is_moving) /\ (ret'.val => is_moving'))
        /\ ret'.op = "motion_stop" => (ret'.val /\ ~is_moving')
        /\ (ret'.op \in {"motion_walk", "motion_turn"} /\ ~ret'.val)
            => /\ walking_speed' = walking_speed
               /\ turning_angle' = turning_angle
               /\ is_moving' = is_moving ]_vars

C26_CarryConstraint ==
    [][ ( /\ ret'.op = "handle_movement"
          /\ held_object # None
          /\ ~is_at_storage_bay(position)
          /\ position' # position )
            => ~DistLe(DistSq(position, storage_bay), DistSq(position', storage_bay)) ]_vars

\* C27: after an update_sensor_data() the monitor keeps at most the last 10
\* readings: the length of _sensor_readings is at most 10
C27_BoundedSensorHistory ==
    ret.op = "update_sensor_data" => Len(sensor_readings) <= 10

\* C28: the operation history is a last in, first out record of the
\* processed commands: get_operation_history() returns the stack, which
\* only a process_next_command extends, by the command it returns, and
\* only an undo_last_operation shortens, by its newest command, which it
\* returns; process_next_command on an empty queue and undo_last_operation
\* on an empty stack return None and change nothing; clear_queue empties
\* the queue and leaves the history as it is
C28_HistoryIsLifo ==
    [][ /\ ret'.op = "get_operation_history"
            => (ret'.result = operation_stack /\ operation_stack' = operation_stack)
        /\ ret'.op = "process_next_command"
            => IF command_queue = <<>>
               THEN /\ ret'.cmd = NoCommand
                    /\ command_queue' = command_queue
                    /\ operation_stack' = operation_stack
                    /\ last_command' = last_command
               ELSE /\ ret'.cmd # NoCommand
                    /\ operation_stack' = operation_stack \o <<ret'.cmd>>
        /\ ret'.op = "undo_last_operation"
            => IF operation_stack = <<>>
               THEN /\ ret'.cmd = NoCommand
                    /\ command_queue' = command_queue
                    /\ operation_stack' = operation_stack
                    /\ last_command' = last_command
               ELSE /\ operation_stack' \o <<ret'.cmd>> = operation_stack
                    /\ command_queue' = command_queue
        /\ ret'.op = "clear_queue"
            => (command_queue' = <<>> /\ operation_stack' = operation_stack)
        /\ (operation_stack' # operation_stack)
            => ret'.op \in {"process_next_command", "undo_last_operation"} ]_vars

\* walk and grasp were processed and the undo gave back grasp, the later one
C28_Witness ==
    /\ ret.op = "undo_last_operation"
    /\ ret.cmd = "grasp"
    /\ operation_stack = <<"walk">>
    /\ returned = <<"walk", "grasp">>

\* C29: in every state reached through the robot's operations the current
\* state is Idle or Error, never Walking, Turning or Grasping, and in the
\* Error state the robot is not operational; hence validate_command returns
\* true only for walk, turn and grasp, never for stop, release or reset
C29_ReachableStates ==
    /\ current_state \in {"Idle", "Error"}
    /\ (current_state = "Error") => ~is_operational
    /\ (ret.op = "validate_command" /\ ret.val) => (ret.arg \in {"walk", "turn", "grasp"})
    /\ (ret.op = "validate_command" /\ ret.arg \in {"stop", "release", "reset"}) => ~ret.val

\* the robot holds an object, is still Idle and release was refused
C29_Witness ==
    /\ is_operational
    /\ held_object # None
    /\ current_state = "Idle"
    /\ ret.op = "validate_command"
    /\ ret.arg = "release"
    /\ ~ret.val

\* C30: with the seed objects, wherever the robot stands in the room at most
\* one unstored object is within the 100 cm gripping range, so that the
\* object the grasp command chooses is the unstored object nearest to the
\* robot
C30_GraspPicksNearest ==
    LET unstored == {id \in DOMAIN objects : id \notin Ids(stored_objects)}
        square(id) == (objects[id][1].a - position[1].a) * (objects[id][1].a - position[1].a)
                    + (objects[id][2].a - position[2].a) * (objects[id][2].a - position[2].a)
        in_range == {id \in unstored : square(id) <= 100 * 100}
    IN  /\ Cardinality(in_range) <= 1
        /\ (ret.op = "grasp" /\ ret.arg \in {"gripped", "failed"})
              => /\ ret.id \in in_range
                 /\ \A other \in unstored : square(ret.id) <= square(other)

\* after the delivery of object 1 the robot, 71 cm from object 3, gripped it
C30_Witness ==
    /\ ret.op = "grasp"
    /\ ret.arg = "gripped"
    /\ held_object = 3
    /\ position = Point(250, 650)
    /\ stored_objects = <<1>>

\* C31: the delivery task can be completed: the session started with the
\* robot at (500, 500), nothing held and nothing stored reaches, by walk,
\* grasp and release commands, a state with all three objects in
\* stored_objects (the state C31_Witness describes); and in every state of
\* every run the held object, if there is one, is not in stored_objects
C31_HeldIsNeverStored ==
    (held_object # None) => (held_object \notin Ids(stored_objects))

\* all three objects have been delivered, the last by a release at the bay
C31_Witness ==
    /\ Ids(stored_objects) = {1, 2, 3}
    /\ Len(stored_objects) = 3
    /\ held_object = None
    /\ ret.op = "release"
    /\ ret.arg = "stored"
    /\ ret.val

=============================================================================
